---- MODULE Spec2Model ----
(***************************************************************************)
(* A model of server.js: the Solana DEX transaction tracker.               *)
(*                                                                         *)
(* JavaScript values are tagged records (field t is the type tag), so that *)
(* "undefined", "null", numbers, strings, arrays and objects are all       *)
(* distinguishable and the optional chaining / truthiness / ToNumber rules *)
(* of the source are modelled by what they do.                             *)
(*                                                                         *)
(* The specifications share the operators that model the code:            *)
(*   SpecDex   - identifyDex applied to bounded log arrays                 *)
(*   SpecParse - one parseTransaction call on bounded transaction details  *)
(*   Spec      - the monitor: onLogs handlers interleaved at their awaits  *)
(*   LiveSpec  - Spec with the fairness of the event loop                  *)
(*   SpecMain  - the whole program: the monitor and the startup messages   *)
(*                                                                         *)
(* A handler is split into actions at its awaits; between two awaits it    *)
(* runs to completion, as JavaScript does.  A rejected promise that nobody *)
(* awaits is recorded in `unhandled`; what the runtime does with it (a     *)
(* warning, or the end of the process) is the runtime's policy and is not  *)
(* part of the model.                                                      *)
(***************************************************************************)
EXTENDS Integers, Sequences, FiniteSets, TLC

VARIABLES
    dexCall,     \* SpecDex: one identifyDex call: its argument and its result
    parseCall,   \* SpecParse: one parseTransaction call: its frame
    answers,     \* SpecParse: what the ledger answered to the call's lookups,
                 \* and in which order the answers came
    env,         \* process.env.DISABLE_TELEGRAM_MESSAGES, read once at start
    ev,          \* per log event: the state of its onLogs handler
    telegram,    \* per log event: the bot.sendMessage call made for it
    unhandled,   \* events whose rejected send promise nobody observes
    errorLog,    \* events whose handler reached console.error at line 272
    subscriptions, \* the wallets whose onLogs listener is registered
    startup      \* messageManager: where it stands in its three messages

parseVars == <<parseCall, answers>>
monitorVars == <<env, ev, telegram, unhandled, errorLog, subscriptions, startup>>
vars == <<dexCall, parseCall, answers, env, ev, telegram, unhandled, errorLog, subscriptions,
          startup>>

(***************************************************************************)
(* JavaScript values                                                       *)
(***************************************************************************)
Undef == [t |-> "undefined"]
Null == [t |-> "null"]
NaN == [t |-> "NaN"]
Num(i) == [t |-> "number", n |-> i]
Str(x) == [t |-> "string", s |-> x]
\* a string that holds the decimal digits of the integer i ("5000000000")
NumStr(i) == [t |-> "numstr", d |-> i]
Arr(q) == [t |-> "array", a |-> q]

IsNullish(v) == v.t \in {"undefined", "null"}

\* ToBoolean: what `if (v)`, `!v`, `&&` and `||` test
Truthy(v) ==
    CASE v.t = "undefined" -> FALSE
      [] v.t = "null" -> FALSE
      [] v.t = "NaN" -> FALSE
      [] v.t = "number" -> v.n # 0
      [] v.t = "string" -> v.s # ""
      [] v.t = "numstr" -> TRUE
      [] v.t = "boolean" -> v.b
      [] OTHER -> TRUE

\* ToNumber, as the operators - and / apply it to their operands
ToNumber(v) ==
    CASE v.t = "number" -> v
      [] v.t = "numstr" -> Num(v.d)
      [] v.t = "null" -> Num(0)
      [] v.t = "string" -> IF v.s = "" THEN Num(0) ELSE NaN
      [] OTHER -> NaN

\* q[i] on an array (0-based): undefined when i is out of range
Index(arr, i) == IF i + 1 \in 1..Len(arr.a) THEN arr.a[i + 1] ELSE Undef

(***************************************************************************)
(* Strings of log text are sequences of characters.                        *)
(***************************************************************************)
RECURSIVE Join(_, _)
\* Array.prototype.join(sep)
Join(lines, sep) ==
    IF Len(lines) = 0 THEN <<>>
    ELSE IF Len(lines) = 1 THEN lines[1]
    ELSE lines[1] \o sep \o Join(Tail(lines), sep)

\* String.prototype.includes(needle)
Includes(text, needle) ==
    \E i \in 0..(Len(text) - Len(needle)) :
        \A k \in 1..Len(needle) : text[i + k] = needle[k]

(***************************************************************************)
(* PROGRAMS: each program id is abbreviated to its first two characters    *)
(* (the ids are 43/44 base58 characters, none a substring of another).     *)
(***************************************************************************)
JUPITER == <<"J", "U">>
RAYDIUM == <<"6", "7">>
PUMP_FUN == <<"6", "E">>
PUMP_FUN_TOKEN_MINT_AUTH == <<"T", "S">>

ProgramIds == {JUPITER, RAYDIUM, PUMP_FUN, PUMP_FUN_TOKEN_MINT_AUTH}

DexInfo(dex, type) == [dex |-> dex, type |-> type]
NoDex == DexInfo(Null, Null)

\* String.prototype.includes as identifyDex uses it
LogIncludes(logString, programId) == Includes(logString, programId)

\* a variant that tests the ids in the order the PROGRAMS table lists them
identifyDexTableOrder(logs) ==
    IF IsNullish(logs) \/ Len(logs.a) = 0 THEN NoDex
    ELSE LET logString == Join(logs.a, <<" ">>) IN
         IF LogIncludes(logString, JUPITER)
            THEN DexInfo(Str("Jupiter"), Str("swap"))
         ELSE IF LogIncludes(logString, RAYDIUM)
            THEN DexInfo(Str("Raydium"), Str("swap"))
         ELSE IF LogIncludes(logString, PUMP_FUN)
            THEN DexInfo(Str("Pump.fun"), Str("swap"))
         ELSE IF LogIncludes(logString, PUMP_FUN_TOKEN_MINT_AUTH)
            THEN DexInfo(Str("Pump.fun"), Str("mint"))
         ELSE NoDex

\* SolanaMonitor.identifyDex(logs); logs is undefined or an array of lines
identifyDex(logs) ==
    IF IsNullish(logs) \/ Len(logs.a) = 0 THEN NoDex
    ELSE LET logString == Join(logs.a, <<" ">>) IN
         IF LogIncludes(logString, PUMP_FUN_TOKEN_MINT_AUTH)
            THEN DexInfo(Str("Pump.fun"), Str("mint"))
         ELSE IF LogIncludes(logString, PUMP_FUN)
            THEN DexInfo(Str("Pump.fun"), Str("swap"))
         ELSE IF LogIncludes(logString, JUPITER)
            THEN DexInfo(Str("Jupiter"), Str("swap"))
         ELSE IF LogIncludes(logString, RAYDIUM)
            THEN DexInfo(Str("Raydium"), Str("swap"))
         ELSE NoDex

(***************************************************************************)
(* Inputs of SpecDex: log arrays of at most MaxLogLines lines; a line is   *)
(* at most two characters of the ids' alphabet, or two ids back to back.   *)
(***************************************************************************)
MaxLogLines == 2

LogAlphabet == {"J", "U", "6", "7", "E", "T", "S", "x"}

LogLine ==
    {<<>>} \cup {<<c>> : c \in LogAlphabet}
           \cup {<<c, d>> : c \in LogAlphabet, d \in LogAlphabet}
           \cup {p \o q : p \in ProgramIds, q \in ProgramIds}

LogArrays ==
    {Undef} \cup
    {Arr(q) : q \in UNION {[1..n -> LogLine] : n \in 0..MaxLogLines}}

DexIdle == [st |-> "idle", logs |-> Undef, result |-> NoDex]

\* one call of identifyDex on the drawn log array
DexReturn ==
    /\ dexCall.st = "called"
    /\ dexCall' = [dexCall EXCEPT !.st = "returned", !.result = identifyDex(dexCall.logs)]
    /\ UNCHANGED <<parseVars, monitorVars>>

(***************************************************************************)
(* Transaction details, as getParsedTransactions returns them              *)
(***************************************************************************)
Meta(pre, post, inner) ==
    [t |-> "object", preBalances |-> pre, postBalances |-> post,
     innerInstructions |-> inner]
Info(amount, source, destination) ==
    [t |-> "object", amount |-> amount, source |-> source, destination |-> destination]
Parsed(type, info) == [t |-> "object", type |-> type, info |-> info]
Ix(parsed) == [t |-> "object", parsed |-> parsed]
Group(instructions) == [t |-> "object", instructions |-> instructions]
Key(pubkey, signer) == [t |-> "object", pubkey |-> pubkey, signer |-> signer]
Message(accountKeys) == [t |-> "object", accountKeys |-> accountKeys]
Txn(message, signatures) ==
    [t |-> "object", message |-> message, signatures |-> signatures]
Tx(meta, transaction) == [t |-> "object", meta |-> meta, transaction |-> transaction]
\* a PublicKey object; toString() gives its base58 text
PubKey(k) == [t |-> "pubkey", key |-> k]
Bool(b) == [t |-> "boolean", b |-> b]

(***************************************************************************)
(* Numbers that are quotients by 1e9                                       *)
(***************************************************************************)
SCALE == 1000000000
Micro == 1000000

\* x / 1e9 for a number x: kept exact as numerator over SCALE
DivScale(x) == IF x.t = "NaN" THEN NaN ELSE [t |-> "ratio", num |-> x.n, den |-> SCALE]
\* a - b
Minus(a, b) ==
    LET x == ToNumber(a)
        y == ToNumber(b)
    IN IF x.t = "NaN" \/ y.t = "NaN" THEN NaN ELSE Num(x.n - y.n)
\* q < 0 (false for NaN)
Negative(q) == q.t = "ratio" /\ q.num < 0
\* Math.abs
MathAbs(q) ==
    IF q.t = "NaN" THEN NaN
    ELSE [q EXCEPT !.num = IF q.num < 0 THEN 0 - q.num ELSE q.num]

\* Number.prototype.toFixed(6) of a quotient by 1e9: the sign, and the
\* nearest count of millionths.  Exact whenever the numerator is not an odd
\* multiple of 500 (a tie is decided by the binary value of the double).
ToFixed6(q) ==
    IF q.t = "NaN" THEN Str("NaN")
    ELSE LET mag == IF q.num < 0 THEN 0 - q.num ELSE q.num
             unit == q.den \div Micro
         IN [t |-> "fixed", neg |-> q.num < 0, micros |-> (mag + unit \div 2) \div unit]

(***************************************************************************)
(* TokenUtils.calculateNativeBalanceChanges                                *)
(***************************************************************************)
\* the property reads of lines 134-135 that raise a TypeError
BalanceReadThrows(td) ==
    \/ IsNullish(td)
    \/ IsNullish(Index(td, 0))
    \/ IsNullish(Index(td, 0).meta)
    \/ IsNullish(Index(td, 0).meta.preBalances)
    \/ IsNullish(Index(td, 0).meta.postBalances)

BalanceChange(td) ==
    LET preBalance == Index(Index(td, 0).meta.preBalances, 0)
        postBalance == Index(Index(td, 0).meta.postBalances, 0)
    IN DivScale(Minus(postBalance, preBalance))

\* a variant whose catch block answers with a default classification
calculateNativeBalanceChangesDefaulting(td) ==
    IF BalanceReadThrows(td)
    THEN [t |-> "object", type |-> Str("sell"), balanceChange |-> NaN]
    ELSE LET balanceChange == BalanceChange(td) IN
         [t |-> "object",
          type |-> IF Negative(balanceChange) THEN Str("buy") ELSE Str("sell"),
          balanceChange |-> MathAbs(balanceChange)]

\* a variant that tests `balanceChange <= 0`
calculateNativeBalanceChangesZeroIsBuy(td) ==
    IF BalanceReadThrows(td) THEN Null
    ELSE LET balanceChange == BalanceChange(td) IN
         [t |-> "object",
          type |-> IF Negative(balanceChange) \/ balanceChange = DivScale(Num(0))
                   THEN Str("buy") ELSE Str("sell"),
          balanceChange |-> MathAbs(balanceChange)]

calculateNativeBalanceChanges(td) ==
    IF BalanceReadThrows(td) THEN Null
    ELSE LET balanceChange == BalanceChange(td) IN
         [t |-> "object",
          type |-> IF Negative(balanceChange) THEN Str("buy") ELSE Str("sell"),
          balanceChange |-> MathAbs(balanceChange)]

(***************************************************************************)
(* The transfer extraction of parseTransaction (lines 183-194)             *)
(***************************************************************************)
RECURSIVE Flatten(_)
\* the instructions of all groups, group by group, in order
Flatten(groups) ==
    IF Len(groups) = 0 THEN <<>>
    ELSE Head(groups).instructions.a \o Flatten(Tail(groups))

\* ix.parsed?.type === 'transfer'
IsTransfer(ix) == ~IsNullish(ix.parsed) /\ ix.parsed.type = Str("transfer")

\* the test of line 186, for an instruction whose reads do not throw
Qualifies(ix) == IsTransfer(ix) /\ Truthy(ix.parsed.info.amount)

\* the forEach callbacks raise a TypeError: a group without an instructions
\* list, or a parsed transfer without info
ExtractThrows(inner) ==
    /\ ~IsNullish(inner)
    /\ \/ \E g \in 1..Len(inner.a) : IsNullish(inner.a[g].instructions)
       \/ \E g \in 1..Len(inner.a) :
             /\ ~IsNullish(inner.a[g].instructions)
             /\ \E i \in 1..Len(inner.a[g].instructions.a) :
                   LET ix == inner.a[g].instructions.a[i]
                   IN IsTransfer(ix) /\ IsNullish(ix.parsed.info)

Transfer(ix) ==
    [amount |-> ix.parsed.info.amount,
     source |-> ix.parsed.info.source,
     destination |-> ix.parsed.info.destination]

RECURSIVE MapTransfersDedup(_)
\* a variant that drops a transfer equal to the one that follows it
MapTransfersDedup(ixs) ==
    IF Len(ixs) = 0 THEN <<>>
    ELSE IF Len(ixs) >= 2 /\ Transfer(ixs[1]) = Transfer(ixs[2])
         THEN MapTransfersDedup(Tail(ixs))
    ELSE <<Transfer(Head(ixs))>> \o MapTransfersDedup(Tail(ixs))

RECURSIVE MapTransfers(_)
\* transfers.push({amount, source, destination}), once per accepted instruction
MapTransfers(ixs) ==
    IF Len(ixs) = 0 THEN <<>> ELSE <<Transfer(Head(ixs))>> \o MapTransfers(Tail(ixs))

\* the transfers array after the loops; inner is meta?.innerInstructions
ExtractTransfers(inner) ==
    IF IsNullish(inner) THEN <<>>
    ELSE MapTransfers(SelectSeq(Flatten(inner.a), Qualifies))

(***************************************************************************)
(* TokenUtils.getTokenMintAddress                                          *)
(***************************************************************************)
\* token account addresses, and the text that is no base58 key
Addresses == {"X", "Y", "Z"}
BadAddress == "not-a-key"
MintOf == [a \in Addresses |-> CASE a = "X" -> "mintX" [] a = "Y" -> "mintY"
                                   [] OTHER -> "mintZ"]

\* new PublicKey(accountAddress) throws
PublicKeyThrows(address) == ~(address.t = "string" /\ address.s \in Addresses)

\* what connection.getParsedAccountInfo can answer for an address
AccountData(parsed) == [t |-> "object", parsed |-> parsed]
AccountInfo(value) == [t |-> "object", value |-> value]
Account(data) == [t |-> "object", data |-> data]
TokenInfo(mint) == [t |-> "object", info |-> [t |-> "object", mint |-> mint]]

Responses(address) ==
    { [k |-> "reject"],                                       \* transport failure
      [k |-> "resolve", info |-> AccountInfo(Null)],         \* no such account
      [k |-> "resolve", info |-> AccountInfo(Account(AccountData(Undef)))],
                                                             \* raw, unparsed data
      [k |-> "resolve", info |-> AccountInfo(Account(AccountData(TokenInfo(Undef))))],
                                                             \* parsed, not a token account
      [k |-> "resolve",
       info |-> AccountInfo(Account(AccountData(TokenInfo(Str(MintOf[address.s])))))] }

\* accountInfo.value?.data?.parsed?.info?.mint
MintField(accountInfo) ==
    IF IsNullish(accountInfo.value) THEN Undef
    ELSE IF IsNullish(accountInfo.value.data) THEN Undef
    ELSE IF IsNullish(accountInfo.value.data.parsed) THEN Undef
    ELSE IF IsNullish(accountInfo.value.data.parsed.info) THEN Undef
    ELSE accountInfo.value.data.parsed.info.mint

\* a variant without the `|| null` fallback of line 118
MintResultNoFallback(response) ==
    IF response.k = "reject" THEN Null ELSE MintField(response.info)

\* the value getTokenMintAddress resolves to, given the ledger's answer
MintResult(response) ==
    IF response.k = "reject" THEN Null
    ELSE IF Truthy(MintField(response.info)) THEN MintField(response.info) ELSE Null

\* the state of one getTokenMintAddress(address) call right after it is made
LookupStart(address) ==
    IF PublicKeyThrows(address)
    THEN [st |-> "settled", address |-> address, mint |-> Null, rpc |-> 0]
    ELSE [st |-> "pending", address |-> address, mint |-> Null, rpc |-> 1]

\* ... and after the ledger answered
LookupSettle(lookup, response) ==
    [lookup EXCEPT !.st = "settled", !.mint = MintResult(response)]

NoLookup == [st |-> "none", address |-> Undef, mint |-> Null, rpc |-> 0]

(***************************************************************************)
(* TransactionParser.parseTransaction, split at its one await (line 202)   *)
(***************************************************************************)
\* txDetails[0].meta?.innerInstructions
InnerOf(tx) == IF IsNullish(tx.meta) THEN Undef ELSE tx.meta.innerInstructions

\* !txDetails || !txDetails[0]
NoWrapper(td) == IsNullish(td) \/ ~Truthy(Index(td, 0))

\* a variant that keeps the last account flagged as signer
FindSignerLast(accountKeys) ==
    IF \E i \in 1..Len(accountKeys.a) : Truthy(accountKeys.a[i].signer)
    THEN accountKeys.a[CHOOSE i \in 1..Len(accountKeys.a) :
                          /\ Truthy(accountKeys.a[i].signer)
                          /\ \A j \in (i + 1)..Len(accountKeys.a) :
                                ~Truthy(accountKeys.a[j].signer)]
    ELSE Undef

\* accountKeys.find((account) => account.signer)
FindSigner(accountKeys) ==
    IF \E i \in 1..Len(accountKeys.a) : Truthy(accountKeys.a[i].signer)
    THEN accountKeys.a[CHOOSE i \in 1..Len(accountKeys.a) :
                          /\ Truthy(accountKeys.a[i].signer)
                          /\ \A j \in 1..(i - 1) : ~Truthy(accountKeys.a[j].signer)]
    ELSE Undef

\* lines 178-180 raise a TypeError
OwnerThrows(tx) ==
    \/ IsNullish(tx.transaction)
    \/ IsNullish(tx.transaction.message)
    \/ IsNullish(tx.transaction.message.accountKeys)
    \/ LET signerAccount == FindSigner(tx.transaction.message.accountKeys)
       IN ~IsNullish(signerAccount) /\ IsNullish(signerAccount.pubkey)

\* signerAccount?.pubkey.toString()
Owner(tx) ==
    LET signerAccount == FindSigner(tx.transaction.message.accountKeys)
    IN IF IsNullish(signerAccount) THEN Undef ELSE Str(signerAccount.pubkey.key)

\* a variant in which the two lookups are started before the early returns
ReturnedWithLookups(td, dexInfo, why, result) ==
    [st |-> "returned", why |-> why, td |-> td, dexInfo |-> dexInfo,
     nativeBalance |-> Null, owner |-> Undef, transfers |-> <<>>,
     tokenIn |-> LookupStart(Undef), tokenOut |-> LookupStart(Undef),
     result |-> result]

\* the frame of a call that returned before line 202: no lookup was started
Returned(td, dexInfo, why, result) ==
    [st |-> "returned", why |-> why, td |-> td, dexInfo |-> dexInfo,
     nativeBalance |-> Null, owner |-> Undef, transfers |-> <<>>,
     tokenIn |-> NoLookup, tokenOut |-> NoLookup, result |-> result]

\* which transfer feeds which leg of the record (lines 199-200)
FirstTransfer(transfers) == transfers[1]
\* a variant that takes tokenIn from the first transfer as well
LastTransferIsFirst(transfers) == transfers[1]
LastTransfer(transfers) == transfers[Len(transfers)]

\* the frame of a call from its entry to the await of line 202, or to its
\* return when it returns before
ParseStart(td, dexInfo) ==
    IF NoWrapper(td) THEN Returned(td, dexInfo, "noWrapper", Null)
    ELSE IF ~Truthy(calculateNativeBalanceChanges(td))
         THEN Returned(td, dexInfo, "noBalance", Null)
    ELSE IF OwnerThrows(Index(td, 0)) \/ ExtractThrows(InnerOf(Index(td, 0)))
         THEN Returned(td, dexInfo, "exception", Null)
    ELSE LET transfers == ExtractTransfers(InnerOf(Index(td, 0))) IN
         IF Len(transfers) = 0 THEN Returned(td, dexInfo, "noTransfers", Null)
         ELSE [st |-> "awaiting", why |-> "", td |-> td, dexInfo |-> dexInfo,
               nativeBalance |-> calculateNativeBalanceChanges(td),
               owner |-> Owner(Index(td, 0)),
               transfers |-> transfers,
               tokenIn |-> LookupStart(LastTransfer(transfers).source),
               tokenOut |-> LookupStart(FirstTransfer(transfers).destination),
               result |-> Null]

\* (amount / 1e9).toFixed(6)
ScaledAmount(amount) == ToFixed6(DivScale(ToNumber(amount)))

\* the object literal of lines 207-221
Record(f) ==
    [t |-> "object",
     type |-> f.nativeBalance.type,
     monitored_wallet |-> f.owner,
     dex |-> f.dexInfo.dex,
     operation |-> f.dexInfo.type,
     tokenIn |-> [mint |-> f.tokenIn.mint,
                  amount |-> ScaledAmount(LastTransfer(f.transfers).amount)],
     tokenOut |-> [mint |-> f.tokenOut.mint,
                   amount |-> ScaledAmount(FirstTransfer(f.transfers).amount)],
     signature |-> Index(Index(f.td, 0).transaction.signatures, 0)]

\* a variant that resumes as soon as one of the two lookups has settled
EitherSettled(f) == f.tokenIn.st = "settled" \/ f.tokenOut.st = "settled"

\* Promise.all of line 202 has resolved
BothSettled(f) == f.tokenIn.st = "settled" /\ f.tokenOut.st = "settled"

\* a variant whose TypeError at line 220 leaves the function uncaught
ParseFinishUncaught(f) ==
    IF IsNullish(Index(f.td, 0).transaction.signatures)
    THEN [f EXCEPT !.st = "threw", !.why = "exception", !.result = Undef]
    ELSE [f EXCEPT !.st = "returned", !.why = "record", !.result = Record(f)]

\* the frame after the await: the record, or null when line 220 throws
ParseFinish(f) ==
    IF IsNullish(Index(f.td, 0).transaction.signatures)
    THEN [f EXCEPT !.st = "returned", !.why = "exception", !.result = Null]
    ELSE [f EXCEPT !.st = "returned", !.why = "record", !.result = Record(f)]

ParseIdle == Returned(Undef, NoDex, "idle", Null)

(***************************************************************************)
(* Inputs of SpecParse                                                     *)
(***************************************************************************)
MaxGroups == 2
MaxIxPerGroup == 2

Lamports1 == 1000000000
Lamports2 == 2000000000
Amount1 == 1500000000
Amount2 == 2000001499

BalanceArrays ==
    {Undef, Arr(<<>>), Arr(<<Num(Lamports2)>>), Arr(<<Num(Lamports1), Num(0)>>),
     Arr(<<Str("abc")>>)}

TransferIx(amount, source, destination) ==
    Ix(Parsed(Str("transfer"), Info(amount, Str(source), Str(destination))))

IxPool ==
    { TransferIx(NumStr(Amount1), "X", "Y"),
      TransferIx(NumStr(Amount2), "Y", "Z") }

Groups == {Group(Arr(q)) : q \in UNION {[1..n -> IxPool] : n \in 0..MaxIxPerGroup}}
InnerGen == {Arr(q) : q \in UNION {[1..n -> Groups] : n \in 0..MaxGroups}}

InnerBasic ==
    { Undef, Null, Arr(<<>>),
      Arr(<<Group(Arr(<<Ix(Undef)>>))>>),
      Arr(<<Group(Arr(<<Ix(Parsed(Str("closeAccount"), Undef))>>))>>),
      Arr(<<Group(Arr(<<TransferIx(NumStr(Amount1), "X", "Y")>>))>>),
      Arr(<<Group(Arr(<<TransferIx(Num(Amount1), BadAddress, "Y")>>))>>),
      Arr(<<Group(Arr(<<Ix(Undef), TransferIx(NumStr(Amount2), "Z", "X")>>)),
            Group(Arr(<<>>)),
            Group(Arr(<<TransferIx(NumStr(Amount1), "Y", BadAddress), Ix(Undef)>>))>>),
      \* a group without an instructions list; a parsed transfer without info
      Arr(<<Group(Undef)>>),
      Arr(<<Group(Arr(<<Ix(Parsed(Str("transfer"), Undef))>>))>>),
      \* amounts that are zero (as a number, as the string "0"), absent, negative
      Arr(<<Group(Arr(<<TransferIx(Num(0), "Z", "X"),
                        TransferIx(NumStr(Amount1), "X", "Y")>>))>>),
      Arr(<<Group(Arr(<<TransferIx(NumStr(0), "Z", "X"),
                        TransferIx(NumStr(Amount1), "X", "Y")>>))>>),
      Arr(<<Group(Arr(<<TransferIx(NumStr(0), "Z", "X")>>))>>),
      Arr(<<Group(Arr(<<TransferIx(Undef, "Z", "X")>>)),
            Group(Arr(<<TransferIx(NumStr(Amount2), "Y", "Z"),
                        TransferIx(Str(""), "Z", "X")>>))>>),
      Arr(<<Group(Arr(<<TransferIx(NumStr(0 - Amount1), "X", "Y")>>))>>) }

Signer1 == Key(PubKey("W1"), Bool(TRUE))
Signer2 == Key(PubKey("W2"), Bool(TRUE))
NonSigner == Key(PubKey("P"), Bool(FALSE))

GoodTxn == Txn(Message(Arr(<<NonSigner, Signer1, Signer2>>)), Arr(<<Str("sig1"), Str("sig2")>>))

TxnShapes ==
    { GoodTxn,
      Txn(Message(Arr(<<NonSigner>>)), Arr(<<Str("sig1")>>)),
      Txn(Message(Arr(<<>>)), Arr(<<Str("sig1")>>)),
      Txn(Message(Arr(<<Signer2, NonSigner, Signer1>>)), Arr(<<Str("sig1")>>)),
      Txn(Message(Arr(<<Key(Undef, Bool(TRUE))>>)), Arr(<<Str("sig1")>>)),
      Txn(Message(Arr(<<Signer1>>)), Undef),
      Txn(Message(Undef), Arr(<<Str("sig1")>>)),
      Txn(Undef, Arr(<<Str("sig1")>>)) }

OneTransfer == Arr(<<Group(Arr(<<TransferIx(NumStr(Amount1), "X", "Y")>>))>>)

DexLabels == {DexInfo(Str("Jupiter"), Str("swap")), DexInfo(Str("Pump.fun"), Str("mint"))}

Sell(inner, txn) ==
    Arr(<<Tx(Meta(Arr(<<Num(Lamports1)>>), Arr(<<Num(Lamports2)>>), inner), txn)>>)
Buy(inner, txn) ==
    Arr(<<Tx(Meta(Arr(<<Num(Lamports2)>>), Arr(<<Num(Lamports1)>>), inner), txn)>>)

\* the (txDetails, dexInfo) pairs parseTransaction is called with
ParseInputs ==
    ({Undef, Null, Arr(<<>>), Arr(<<Null>>), Arr(<<Tx(Null, GoodTxn)>>),
      Arr(<<Tx(Undef, GoodTxn)>>), Sell(OneTransfer, Undef)}
     \cup {Arr(<<Tx(Meta(pre, post, inner), GoodTxn)>>) :
              pre \in BalanceArrays, post \in BalanceArrays, inner \in InnerBasic}
     \cup {Sell(OneTransfer, txn) : txn \in TxnShapes}) \X DexLabels
    \cup {Buy(inner, GoodTxn) : inner \in InnerGen} \X {DexInfo(Str("Raydium"), Str("swap"))}

(***************************************************************************)
(* SpecParse: one parseTransaction call                                    *)
(***************************************************************************)
NoAnswer == [k |-> "none"]
NoAnswers == [tokenIn |-> NoAnswer, tokenOut |-> NoAnswer, order |-> <<>>]

\* the call runs to its first await or to its return
ParseEnter ==
    /\ parseCall.st = "called"
    /\ parseCall' = ParseStart(parseCall.td, parseCall.dexInfo)
    /\ UNCHANGED <<answers, dexCall, monitorVars>>

\* the ledger answers the lookup of the last transfer's source
ParseSettleIn ==
    /\ parseCall.st = "awaiting" /\ parseCall.tokenIn.st = "pending"
    /\ \E r \in Responses(parseCall.tokenIn.address) :
          /\ parseCall' = [parseCall EXCEPT !.tokenIn = LookupSettle(@, r)]
          /\ answers' = [answers EXCEPT !.tokenIn = r, !.order = Append(@, "tokenIn")]
    /\ UNCHANGED <<dexCall, monitorVars>>

\* the ledger answers the lookup of the first transfer's destination
ParseSettleOut ==
    /\ parseCall.st = "awaiting" /\ parseCall.tokenOut.st = "pending"
    /\ \E r \in Responses(parseCall.tokenOut.address) :
          /\ parseCall' = [parseCall EXCEPT !.tokenOut = LookupSettle(@, r)]
          /\ answers' = [answers EXCEPT !.tokenOut = r, !.order = Append(@, "tokenOut")]
    /\ UNCHANGED <<dexCall, monitorVars>>

\* both lookups have settled: the call resumes and returns
ParseResume ==
    /\ parseCall.st = "awaiting" /\ BothSettled(parseCall)
    /\ parseCall' = ParseFinish(parseCall)
    /\ UNCHANGED <<answers, dexCall, monitorVars>>

(***************************************************************************)
(* formatJsonToString: the lines of the message, each a prefix, a key and  *)
(* a value; null and undefined values are skipped, objects are recursed    *)
(***************************************************************************)
FormatLine(prefix, key, value) ==
    IF IsNullish(value) THEN <<>>
    ELSE <<[prefix |-> prefix, key |-> key, value |-> value]>>

FormatObject(key, obj) ==
    <<[prefix |-> "", key |-> key, value |-> [t |-> "nested"]]>>
    \o FormatLine("  ", "mint", obj.mint)
    \o FormatLine("  ", "amount", obj.amount)

formatJsonToString(r) ==
    FormatLine("", "type", r.type)
    \o FormatLine("", "monitored_wallet", r.monitored_wallet)
    \o FormatLine("", "dex", r.dex)
    \o FormatLine("", "operation", r.operation)
    \o FormatObject("tokenIn", r.tokenIn)
    \o FormatObject("tokenOut", r.tokenOut)
    \o FormatLine("", "signature", r.signature)

(***************************************************************************)
(* The monitor: SolanaMonitor.monitorWallets and its onLogs handlers       *)
(***************************************************************************)
NumEvents == 2
Events == 1..NumEvents

\* TRACKING_WALLETS, abbreviated to its first two entries
TRACKING_WALLETS == <<"5szG", "BXvi">>
Wallets == {TRACKING_WALLETS[i] : i \in 1..Len(TRACKING_WALLETS)}

\* the values DISABLE_TELEGRAM_MESSAGES can have after dotenv loaded .env
EnvValues == {Undef, Str("0"), Str("1")}

\* the signature the ledger reports for event e
Sig(e) == [t |-> "string", s |-> "signature", of |-> e]

\* the log arrays events carry
MonitorLogs ==
    { Undef, Arr(<<>>), Arr(<<<<"x", "x">>>>),
      Arr(<<JUPITER>>), Arr(<<JUPITER, PUMP_FUN_TOKEN_MINT_AUTH>>) }

EventTxn(e) == Txn(Message(Arr(<<Signer1>>)), Arr(<<Sig(e)>>))

\* what getParsedTransactions([signature]) can resolve to for event e
MonitorDetails(e) ==
    { Arr(<<>>),
      Arr(<<Tx(Null, EventTxn(e))>>),
      Arr(<<Tx(Meta(Arr(<<Num(Lamports1)>>), Arr(<<Num(Lamports2)>>), Undef), EventTxn(e))>>),
      Arr(<<Tx(Meta(Arr(<<Num(Lamports2)>>), Arr(<<Num(Lamports1)>>), OneTransfer),
               EventTxn(e))>>) }

EventIdle ==
    [pc |-> "idle", logs |-> Undef, dexInfo |-> NoDex,
     fetch |-> "none", frame |-> ParseIdle, sends |-> 0]

NoMessage == [st |-> "none", text |-> <<>>]

\* a variant in which answers are consumed in request order: a handler
\* waits for the fetches of the events delivered before it
FetchCompletesInOrder(e) ==
    /\ ev[e].pc = "fetching" /\ ev[e].fetch = "pending"
    /\ \A d \in 1..(e - 1) : ev[d].pc # "fetching"

\* the continuation of an awaited query runs once the query has completed,
\* whatever other handlers are waiting for
FetchCompletes(e) == ev[e].pc = "fetching" /\ ev[e].fetch = "pending"

\* a variant without the early return of line 256
HandlerStartNoEarlyReturn(event, logs) ==
    [event EXCEPT !.pc = "fetching", !.logs = logs, !.dexInfo = identifyDex(logs),
                  !.fetch = "pending"]

\* a variant that keeps the label in a field all handlers share and reuses
\* the one a handler stored before
HandlerStartSharedDex(event, logs) ==
    LET known == {d \in Events : Truthy(ev[d].dexInfo.dex)}
        dexInfo == IF known # {} THEN ev[CHOOSE d \in known : TRUE].dexInfo
                   ELSE identifyDex(logs)
    IN IF ~Truthy(dexInfo.dex)
       THEN [event EXCEPT !.pc = "done", !.logs = logs, !.dexInfo = dexInfo]
       ELSE [event EXCEPT !.pc = "fetching", !.logs = logs, !.dexInfo = dexInfo,
                          !.fetch = "pending"]

\* the handler of lines 253-274 up to its first await: identifyDex, then the
\* early return or the getParsedTransactions call
HandlerStart(event, logs) ==
    LET dexInfo == identifyDex(logs) IN
    IF ~Truthy(dexInfo.dex)
    THEN [event EXCEPT !.pc = "done", !.logs = logs, !.dexInfo = dexInfo]
    ELSE [event EXCEPT !.pc = "fetching", !.logs = logs, !.dexInfo = dexInfo,
                       !.fetch = "pending"]

\* monitorWallets: one onLogs listener per wallet, all registered in one go
MonitorWallets ==
    /\ subscriptions = {}
    /\ subscriptions' = Wallets
    /\ UNCHANGED <<dexCall, parseCall, answers, env, ev, telegram, unhandled, errorLog, startup>>

\* the transport delivers the next log event to the listener of a wallet;
\* the callback never reads the wallet it was registered for
Deliver(e) ==
    /\ ev[e].pc = "idle"
    /\ \A d \in 1..(e - 1) : ev[d].pc # "idle"
    /\ \E wallet \in subscriptions, logs \in MonitorLogs :
          ev' = [ev EXCEPT ![e] = HandlerStart(@, logs)]
    /\ UNCHANGED <<dexCall, parseCall, answers, env, telegram, unhandled, errorLog, subscriptions, startup>>

\* the handler after `await getParsedTransactions`: parseTransaction is
\* called and runs to its await or to its return
AfterFetch(event, td) ==
    LET frame == ParseStart(td, event.dexInfo) IN
    [event EXCEPT !.fetch = "resolved", !.frame = frame,
                  !.pc = IF frame.st = "returned" THEN "parsed" ELSE "parsing"]

FetchResolve(e) ==
    /\ FetchCompletes(e)
    /\ \E td \in MonitorDetails(e) : ev' = [ev EXCEPT ![e] = AfterFetch(@, td)]
    /\ UNCHANGED <<dexCall, parseCall, answers, env, telegram, unhandled, errorLog, subscriptions, startup>>

\* a variant whose catch block reports the error to the chat
CaughtErrorNotifies(e) ==
    [log |-> errorLog \cup {e}, message |-> [st |-> "pending", text |-> <<>>],
     listeners |-> subscriptions]

\* a variant whose catch block removes the listeners
CaughtErrorUnsubscribes(e) ==
    [log |-> errorLog \cup {e}, message |-> telegram[e], listeners |-> {}]

\* the catch block of lines 271-273: the error is logged; nothing is sent
\* and the listener stays registered
CaughtError(e) ==
    [log |-> errorLog \cup {e}, message |-> telegram[e], listeners |-> subscriptions]

\* getParsedTransactions rejects: the await throws into the catch
FetchReject(e) ==
    /\ FetchCompletes(e)
    /\ ev' = [ev EXCEPT ![e].fetch = "rejected", ![e].pc = "done"]
    /\ errorLog' = CaughtError(e).log
    /\ telegram' = [telegram EXCEPT ![e] = CaughtError(e).message]
    /\ subscriptions' = CaughtError(e).listeners
    /\ UNCHANGED <<dexCall, parseCall, answers, env, unhandled, startup>>

\* the ledger answers a mint lookup of event e
MintSettleIn(e) ==
    /\ ev[e].pc = "parsing" /\ ev[e].frame.tokenIn.st = "pending"
    /\ \E settled \in {LookupSettle(ev[e].frame.tokenIn, r) :
                             r \in Responses(ev[e].frame.tokenIn.address)} :
          ev' = [ev EXCEPT ![e].frame.tokenIn = settled]
    /\ UNCHANGED <<dexCall, parseCall, answers, env, telegram, unhandled, errorLog, subscriptions, startup>>

MintSettleOut(e) ==
    /\ ev[e].pc = "parsing" /\ ev[e].frame.tokenOut.st = "pending"
    /\ \E settled \in {LookupSettle(ev[e].frame.tokenOut, r) :
                             r \in Responses(ev[e].frame.tokenOut.address)} :
          ev' = [ev EXCEPT ![e].frame.tokenOut = settled]
    /\ UNCHANGED <<dexCall, parseCall, answers, env, telegram, unhandled, errorLog, subscriptions, startup>>

\* Promise.all resolved: parseTransaction resumes and returns
ParseReturn(e) ==
    /\ ev[e].pc = "parsing" /\ BothSettled(ev[e].frame)
    /\ ev' = [ev EXCEPT ![e].frame = ParseFinish(@), ![e].pc = "parsed"]
    /\ UNCHANGED <<dexCall, parseCall, answers, env, telegram, unhandled, errorLog, subscriptions, startup>>

\* sendTelegramMessage(message): nothing when the flag is truthy, else the
\* bot.sendMessage call
SendTelegram(message, flag, text) ==
    IF Truthy(flag) THEN message ELSE [st |-> "pending", text |-> text]

\* lines 267-270: the handler after `await parseTransaction`
SendsFor(parsedTx) == IF Truthy(parsedTx) THEN 1 ELSE 0

HandlerResume(e) ==
    /\ ev[e].pc = "parsed"
    /\ ev' = [ev EXCEPT ![e].pc = "done", ![e].sends = @ + SendsFor(ev[e].frame.result)]
    /\ telegram' =
          IF SendsFor(ev[e].frame.result) = 1
          THEN [telegram EXCEPT
                   ![e] = SendTelegram(@, env, formatJsonToString(ev[e].frame.result))]
          ELSE telegram
    /\ UNCHANGED <<dexCall, parseCall, answers, env, unhandled, errorLog, subscriptions, startup>>

\* bot.sendMessage resolves
SendResolve(e) ==
    /\ telegram[e].st = "pending"
    /\ telegram' = [telegram EXCEPT ![e].st = "sent"]
    /\ UNCHANGED <<dexCall, parseCall, answers, env, ev, unhandled, errorLog, subscriptions, startup>>

\* who observes the rejection of the promise sendTelegramMessage returned:
\* line 269 neither awaits it nor attaches a handler, so the catch of line
\* 271 never sees it
SendFailure(e) == [caught |-> {}, unobserved |-> {e}]

\* bot.sendMessage rejects
SendReject(e) ==
    /\ telegram[e].st = "pending"
    /\ telegram' = [telegram EXCEPT ![e].st = "rejected"]
    /\ errorLog' = errorLog \cup SendFailure(e).caught
    /\ unhandled' = unhandled \cup SendFailure(e).unobserved
    /\ UNCHANGED <<dexCall, parseCall, answers, env, ev, subscriptions, startup>>

\* a query that never completes
HangFetch(e) ==
    /\ FetchCompletes(e)
    /\ ev' = [ev EXCEPT ![e].fetch = "hung"]
    /\ UNCHANGED <<dexCall, parseCall, answers, env, telegram, unhandled, errorLog, subscriptions, startup>>

HangLookup(e) ==
    /\ ev[e].pc = "parsing"
    /\ \/ /\ ev[e].frame.tokenIn.st = "pending"
          /\ ev' = [ev EXCEPT ![e].frame.tokenIn.st = "hung"]
       \/ /\ ev[e].frame.tokenOut.st = "pending"
          /\ ev' = [ev EXCEPT ![e].frame.tokenOut.st = "hung"]
    /\ UNCHANGED <<dexCall, parseCall, answers, env, telegram, unhandled, errorLog, subscriptions, startup>>

(***************************************************************************)
(* The main program (lines 322-324) and messageManager (lines 314-319)     *)
(***************************************************************************)
\* the startup messages: two literals and the list printTrackedWalletTg builds
StartupMessages == <<"Wallet Tracker started.", "Monitoring.", "Tracked wallets">>

\* handed counts the bot.sendMessage calls messageManager has made
StartupIdle == [pc |-> "idle", handed |-> 0]

\* messageManager up to its first pending await: with a truthy flag
\* sendTelegramMessage (line 75) and printTrackedWalletTg (line 86) return
\* at once and it runs through; else the first message is handed to the bot
MessageManagerStart(flag) ==
    IF Truthy(flag) THEN [pc |-> "done", handed |-> 0]
    ELSE [pc |-> "sending", handed |-> 1]

\* the awaited bot.sendMessage resolved: the next message is handed over, or
\* messageManager is through
MessageManagerResume(m) ==
    IF m.handed < Len(StartupMessages) THEN [m EXCEPT !.handed = @ + 1]
    ELSE [m EXCEPT !.pc = "done"]

\* lines 322-324 run in one go: the listeners are registered, then
\* messageManager is called and runs to its first pending await
Main ==
    /\ subscriptions = {} /\ startup.pc = "idle"
    /\ subscriptions' = Wallets
    /\ startup' = MessageManagerStart(env)
    /\ UNCHANGED <<dexCall, parseCall, answers, env, ev, telegram, unhandled, errorLog>>

StartupSendResolve ==
    /\ startup.pc = "sending"
    /\ startup' = MessageManagerResume(startup)
    /\ UNCHANGED <<dexCall, parseCall, answers, env, ev, telegram, unhandled, errorLog,
                   subscriptions>>

\* the awaited bot.sendMessage rejected: messageManager throws at that
\* await and the messages after it are never sent
StartupSendReject ==
    /\ startup.pc = "sending"
    /\ startup' = [startup EXCEPT !.pc = "failed"]
    /\ UNCHANGED <<dexCall, parseCall, answers, env, ev, telegram, unhandled, errorLog,
                   subscriptions>>

(***************************************************************************)
(* Specifications                                                          *)
(***************************************************************************)
MonitorIdle ==
    /\ startup = StartupIdle
    /\ ev = [e \in Events |-> EventIdle]
    /\ telegram = [e \in Events |-> NoMessage]
    /\ unhandled = {}
    /\ errorLog = {}
    /\ subscriptions = {}

InitDex ==
    /\ dexCall \in {[DexIdle EXCEPT !.st = "called", !.logs = logs] : logs \in LogArrays}
    /\ parseCall = ParseIdle
    /\ answers = NoAnswers
    /\ env = Undef
    /\ MonitorIdle

NextDex == DexReturn

SpecDex == InitDex /\ [][NextDex]_vars

InitParse ==
    /\ dexCall = DexIdle
    /\ parseCall \in {[Returned(in[1], in[2], "", Null) EXCEPT !.st = "called"] :
                         in \in ParseInputs}
    /\ answers = NoAnswers
    /\ env = Undef
    /\ MonitorIdle

NextParse ==
    \/ ParseEnter
    \/ ParseSettleIn
    \/ ParseSettleOut
    \/ ParseResume

SpecParse == InitParse /\ [][NextParse]_vars

Init ==
    /\ dexCall = DexIdle
    /\ parseCall = ParseIdle
    /\ answers = NoAnswers
    /\ env \in EnvValues
    /\ MonitorIdle

Next ==
    \/ MonitorWallets
    \/ \E e \in Events :
        \/ Deliver(e)
        \/ FetchResolve(e)
        \/ FetchReject(e)
        \/ MintSettleIn(e)
        \/ MintSettleOut(e)
        \/ ParseReturn(e)
        \/ HandlerResume(e)
        \/ SendResolve(e)
        \/ SendReject(e)
        \/ HangFetch(e)
        \/ HangLookup(e)

Spec == Init /\ [][Next]_vars

\* the handlers of one event
Handler(e) ==
    \/ Deliver(e)
    \/ FetchResolve(e)
    \/ FetchReject(e)
    \/ MintSettleIn(e)
    \/ MintSettleOut(e)
    \/ ParseReturn(e)
    \/ HandlerResume(e)
    \/ SendResolve(e)
    \/ SendReject(e)
    \/ HangFetch(e)
    \/ HangLookup(e)

\* the whole program: the monitor together with the startup messages
NextMain ==
    \/ Main
    \/ StartupSendResolve
    \/ StartupSendReject
    \/ \E e \in Events : Handler(e)

SpecMain == Init /\ [][NextMain]_vars

\* the event loop runs every continuation whose awaited promise has
\* settled, and a query that does not hang is answered
Progress(e) ==
    /\ WF_vars(FetchResolve(e) \/ FetchReject(e))
    /\ WF_vars(MintSettleIn(e))
    /\ WF_vars(MintSettleOut(e))
    /\ WF_vars(ParseReturn(e))
    /\ WF_vars(HandlerResume(e))

Fairness == \A e \in Events : Progress(e)

LiveSpec == Spec /\ Fairness

(***************************************************************************)
(* Properties of parseTransaction (checked under SpecParse)                *)
(***************************************************************************)
CallReturned == parseCall.st = "returned"
GotRecord == CallReturned /\ ~IsNullish(parseCall.result)

\* the input, read structurally
InputTx == Index(parseCall.td, 0)
WrapperNonEmpty == parseCall.td.t = "array" /\ Len(parseCall.td.a) > 0
MetaPresent == WrapperNonEmpty /\ ~IsNullish(InputTx) /\ ~IsNullish(InputTx.meta)
BalancesReadable ==
    /\ MetaPresent
    /\ InputTx.meta.preBalances.t = "array"
    /\ InputTx.meta.postBalances.t = "array"
InnerPresent == MetaPresent /\ InputTx.meta.innerInstructions.t = "array"
\* the input holds a parsed instruction of type 'transfer'
HasParsedTransfer ==
    /\ InnerPresent
    /\ \E g \in 1..Len(InputTx.meta.innerInstructions.a) :
          LET group == InputTx.meta.innerInstructions.a[g] IN
          /\ group.instructions.t = "array"
          /\ \E i \in 1..Len(group.instructions.a) :
                /\ group.instructions.a[i].parsed.t = "object"
                /\ group.instructions.a[i].parsed.type = Str("transfer")

\* C1: a record is returned only if the outer wrapper is non-empty, the
\* native-balance computation succeeded and at least one transfer was
\* extracted; whenever the inner-instruction container is absent or holds no
\* parsed 'transfer' instruction the call returns null, whatever the balances.
C1_RecordOnlyIfAllStagesPassed ==
    /\ GotRecord =>
          /\ WrapperNonEmpty
          /\ BalancesReadable
          /\ ~IsNullish(parseCall.nativeBalance)
          /\ Len(parseCall.transfers) >= 1
          /\ HasParsedTransfer
    /\ (CallReturned /\ ~HasParsedTransfer) => parseCall.result = Null

\* C1 witness: a call with valid balances and no inner instructions returned
\* null, having passed the balance stage.
C1_Witness ==
    /\ CallReturned /\ parseCall.why = "noTransfers"
    /\ BalancesReadable /\ ~InnerPresent
    /\ parseCall.result = Null

\* the fields the Native-Balance Analyzer needs are absent or malformed
BalanceFieldsMalformed ==
    \/ ~BalancesReadable
    \/ Len(InputTx.meta.preBalances.a) = 0
    \/ Len(InputTx.meta.postBalances.a) = 0
    \/ ToNumber(InputTx.meta.preBalances.a[1]) = NaN
    \/ ToNumber(InputTx.meta.postBalances.a[1]) = NaN

\* C4 as claimed: with absent or malformed balance fields
\* calculateNativeBalanceChanges returns null and so does parseTransaction.
C4_MalformedBalancesGiveNoResult ==
    (parseCall.st # "called" /\ ~IsNullish(parseCall.td) /\ BalanceFieldsMalformed) =>
        /\ calculateNativeBalanceChanges(parseCall.td) = Null
        /\ CallReturned => parseCall.result = Null

\* the mint the ledger holds for a token account address, if it is one
MintAt(address) == Str(MintOf[address.s])
\* a leg's mint is the one of the given account, or the 'unknown' sentinel
ResolvedFrom(mint, address) ==
    \/ mint = Null
    \/ address.t = "string" /\ address.s \in Addresses /\ mint = MintAt(address)

\* C7: in every record tokenIn (mint and amount) comes from the LAST
\* extracted transfer, its mint resolved from the source account, and tokenOut
\* from the FIRST extracted transfer, its mint resolved from the destination
\* account; with exactly one transfer both legs come from that one entry and
\* the two amounts are equal.
C7_InFromLastOutFromFirst ==
    GotRecord =>
        LET ts == parseCall.transfers
            first == ts[1]
            last == ts[Len(ts)]
            r == parseCall.result
        IN /\ parseCall.tokenIn.address = last.source
           /\ r.tokenIn.mint = parseCall.tokenIn.mint
           /\ ResolvedFrom(r.tokenIn.mint, last.source)
           /\ r.tokenIn.amount = ScaledAmount(last.amount)
           /\ parseCall.tokenOut.address = first.destination
           /\ r.tokenOut.mint = parseCall.tokenOut.mint
           /\ ResolvedFrom(r.tokenOut.mint, first.destination)
           /\ r.tokenOut.amount = ScaledAmount(first.amount)
           /\ Len(ts) = 1 => r.tokenIn.amount = r.tokenOut.amount

\* C7 witness: a record built from several transfers whose first and last
\* differ in accounts and amount, both mints resolved.
C7_Witness ==
    /\ GotRecord
    /\ Len(parseCall.transfers) >= 2
    /\ parseCall.result.tokenIn.mint = Str("mintX")
    /\ parseCall.result.tokenOut.mint = Str("mintZ")
    /\ parseCall.result.tokenIn.amount # parseCall.result.tokenOut.amount

\* the lookup of a leg failed: the address is no key, the query was
\* rejected, or the answer holds no mint
LookupFailed(lookup, answer) ==
    /\ lookup.st = "settled"
    /\ \/ answer.k = "none"
       \/ answer.k = "reject"
       \/ /\ answer.k = "resolve"
          /\ \/ answer.info.value = Null
             \/ /\ answer.info.value # Null
                /\ \/ answer.info.value.data.parsed = Undef
                   \/ /\ answer.info.value.data.parsed # Undef
                      /\ answer.info.value.data.parsed.info.mint = Undef

SignaturesReadable == InputTx.transaction.signatures.t = "array"
EraseMints(r) == [r EXCEPT !.tokenIn.mint = Null, !.tokenOut.mint = Null]

\* C9: a failed mint lookup never aborts the classification: the lookup
\* settles with the 'unknown' sentinel (null), and the call still returns the
\* record, that leg's mint being the sentinel and every other field being
\* what the call computed before the lookups were answered.
C9_FailedLookupIsNotFatal ==
    /\ LookupFailed(parseCall.tokenIn, answers.tokenIn) => parseCall.tokenIn.mint = Null
    /\ LookupFailed(parseCall.tokenOut, answers.tokenOut) => parseCall.tokenOut.mint = Null
    /\ (CallReturned /\ parseCall.tokenIn.st = "settled" /\ SignaturesReadable) =>
          /\ GotRecord
          /\ parseCall.result.tokenIn.mint = parseCall.tokenIn.mint
          /\ parseCall.result.tokenOut.mint = parseCall.tokenOut.mint
          /\ EraseMints(parseCall.result)
                = EraseMints(Record(ParseStart(parseCall.td, parseCall.dexInfo)))

\* C9 witness: a record whose tokenIn lookup was rejected by the ledger and
\* whose tokenOut lookup succeeded.
C9_Witness ==
    /\ GotRecord
    /\ answers.tokenIn.k = "reject"
    /\ parseCall.result.tokenIn.mint = Null
    /\ parseCall.result.tokenOut.mint # Null

(***************************************************************************)
(* Properties of identifyDex (checked under SpecDex)                       *)
(***************************************************************************)
\* the program id occurs in some line of the log array
Mentions(logs, programId) ==
    /\ logs.t = "array"
    /\ \E i \in 1..Len(logs.a) : Includes(logs.a[i], programId)

\* the label of the highest-priority program id the logs mention
PriorityLabel(logs) ==
    IF Mentions(logs, PUMP_FUN_TOKEN_MINT_AUTH) THEN DexInfo(Str("Pump.fun"), Str("mint"))
    ELSE IF Mentions(logs, PUMP_FUN) THEN DexInfo(Str("Pump.fun"), Str("swap"))
    ELSE IF Mentions(logs, JUPITER) THEN DexInfo(Str("Jupiter"), Str("swap"))
    ELSE IF Mentions(logs, RAYDIUM) THEN DexInfo(Str("Raydium"), Str("swap"))
    ELSE DexInfo(Null, Null)

\* C5: identifyDex returns the label of the highest-priority program id that
\* occurs in the log lines (mint authority, pump.fun, Jupiter, Raydium),
\* wherever in the lines the ids occur, and the no-match sentinel if none does.
C5_FixedPriority ==
    dexCall.st = "returned" => dexCall.result = PriorityLabel(dexCall.logs)

\* C5 witness: Jupiter's id in the first line and the mint authority's in the
\* second gave {Pump.fun, mint}.
C5_Witness ==
    /\ dexCall.st = "returned"
    /\ dexCall.logs = Arr(<<JUPITER, PUMP_FUN_TOKEN_MINT_AUTH>>)
    /\ dexCall.result = DexInfo(Str("Pump.fun"), Str("mint"))

(***************************************************************************)
(* Properties of the monitor (checked under Spec and LiveSpec)             *)
(***************************************************************************)
Delivered(e) == ev[e].pc # "idle"
Result(e) == ev[e].frame.result
NothingDownstream(e) ==
    /\ ev[e].fetch = "none"
    /\ ev[e].frame = ParseIdle
    /\ ev[e].sends = 0
    /\ telegram[e] = NoMessage

\* C2 as claimed: a rejected bot.sendMessage is caught and logged inside the
\* event's handler and never becomes an unhandled rejection.
C2_SendFailureIsCaught ==
    /\ unhandled = {}
    /\ \A e \in Events : telegram[e].st = "rejected" => e \in errorLog

\* the next step of the handler of event d can be taken
Runnable(d) ==
    /\ (ev[d].pc = "idle" /\ \A c \in 1..(d - 1) : Delivered(c)) => ENABLED Deliver(d)
    /\ (ev[d].pc = "fetching" /\ ev[d].fetch = "pending") => ENABLED FetchResolve(d)
    /\ (ev[d].pc = "parsing" /\ ev[d].frame.tokenIn.st = "pending")
          => ENABLED MintSettleIn(d)
    /\ (ev[d].pc = "parsing" /\ ev[d].frame.tokenOut.st = "pending")
          => ENABLED MintSettleOut(d)
    /\ (ev[d].pc = "parsing" /\ BothSettled(ev[d].frame)) => ENABLED ParseReturn(d)
    /\ ev[d].pc = "parsed" => ENABLED HandlerResume(d)

\* C3: when getParsedTransactions fails for a matched event the failure is
\* caught in that event's handler (logged, handler finished, never unhandled),
\* nothing is parsed or sent for the event, and the listeners stay registered:
\* every other event can still be delivered and its handler can still run.
C3_FetchFailureIsContained ==
    \A e \in Events :
        ev[e].fetch = "rejected" =>
            /\ e \in errorLog /\ e \notin unhandled
            /\ ev[e].pc = "done"
            /\ ev[e].frame = ParseIdle /\ ev[e].sends = 0 /\ telegram[e] = NoMessage
            /\ subscriptions = Wallets
            /\ \A d \in Events \ {e} : Runnable(d)

\* C3 witness: the fetch of event 1 failed and event 2 was notified.
C3_Witness ==
    /\ ev[1].fetch = "rejected"
    /\ ev[2].pc = "done" /\ ~IsNullish(Result(2)) /\ telegram[2].st = "sent"

\* the log lines are absent, empty or mention no known program id
NoKnownId(logs) == \A id \in ProgramIds : ~Mentions(logs, id)

\* C6: for an event whose log lines are empty, absent or mention no known
\* program id the handler makes no downstream call (no fetch, no parse, no
\* lookup, no send); a parse is attempted only after a match, so no record
\* has dex or operation unset.
C6_UnmatchedEventIsIgnored ==
    \A e \in Events :
        /\ (Delivered(e) /\ NoKnownId(ev[e].logs)) =>
              /\ ev[e].pc = "done" /\ NothingDownstream(e) /\ e \notin errorLog
        /\ ev[e].frame # ParseIdle => ~IsNullish(ev[e].dexInfo.dex)
        /\ ~IsNullish(Result(e)) =>
              /\ ~IsNullish(Result(e).dex)
              /\ ~IsNullish(Result(e).operation)

\* C6 witness: an event with a line that mentions no program id was dropped,
\* and an event with an absent log array too.
C6_Witness ==
    /\ ev[1].pc = "done" /\ ev[1].logs = Arr(<<<<"x", "x">>>>)
    /\ ev[2].pc = "done" /\ ev[2].logs = Undef
    /\ NothingDownstream(1) /\ NothingDownstream(2)

\* C8: a notification is sent for an event only if its parseTransaction
\* returned a record, it is the formatted record, and sendTelegramMessage is
\* called at most once per event; an event that ends without a record sends
\* nothing.
C8_NotifyOnlyRecords ==
    \A e \in Events :
        /\ ev[e].sends <= 1
        /\ (telegram[e] # NoMessage \/ ev[e].sends = 1) =>
              /\ ev[e].pc = "done"
              /\ ev[e].frame.why = "record" /\ ~IsNullish(Result(e))
              /\ ev[e].sends = 1
              /\ telegram[e] # NoMessage => telegram[e].text = formatJsonToString(Result(e))
        /\ (ev[e].pc = "done" /\ IsNullish(Result(e))) =>
              /\ telegram[e] = NoMessage /\ ev[e].sends = 0

\* C8 witness: one event ended without a record and silent, the other was
\* notified with its record.
C8_Witness ==
    /\ ev[1].pc = "done" /\ ev[1].frame.why = "noTransfers" /\ telegram[1] = NoMessage
    /\ ev[2].pc = "done" /\ telegram[2].st = "sent"

\* an external query of the event never completes
Stalled(e) ==
    \/ ev[e].fetch = "hung"
    \/ ev[e].frame.tokenIn.st = "hung"
    \/ ev[e].frame.tokenOut.st = "hung"
InFlight(e) == ev[e].pc \in {"fetching", "parsing", "parsed"}
\* the handler ended, and a record it got was handed to sendTelegramMessage
Finished(e) ==
    /\ ev[e].pc = "done"
    /\ ~IsNullish(Result(e)) =>
          /\ ev[e].sends = 1
          /\ ~Truthy(env) => telegram[e] # NoMessage

\* C10: a hung query of one event stalls only that event: every other event
\* in flight, delivered before or after, is classified and, if it yields a
\* record, handed to the notification channel, unless a query of its own hangs.
C10_HangStallsOnlyItsEvent ==
    \A h \in Events : \A e \in Events \ {h} :
        (Stalled(h) /\ InFlight(e)) ~> (Stalled(e) \/ Finished(e))

\* C10 witness: the fetch of event 1 hangs and event 2 was notified; its
\* mirror image holds the case of an event delivered before the hung one.
C10_Witness ==
    /\ ev[1].fetch = "hung"
    /\ Finished(2) /\ telegram[2].st = "sent"

(***************************************************************************)
(* Further properties of parseTransaction (checked under SpecParse)        *)
(***************************************************************************)
\* a field the function dereferences is missing from the transaction detail
ShapeIncomplete ==
    /\ WrapperNonEmpty /\ InputTx.t = "object"
    /\ \/ InputTx.transaction.t # "object"
       \/ InputTx.transaction.message.t # "object"
       \/ InputTx.transaction.message.accountKeys.t # "array"
       \/ InputTx.transaction.signatures.t # "array"
       \/ /\ InnerPresent
          /\ \E g \in 1..Len(InputTx.meta.innerInstructions.a) :
                LET group == InputTx.meta.innerInstructions.a[g] IN
                \/ group.instructions.t # "array"
                \/ \E i \in 1..Len(group.instructions.a) :
                      /\ group.instructions.a[i].parsed.t = "object"
                      /\ group.instructions.a[i].parsed.type = Str("transfer")
                      /\ group.instructions.a[i].parsed.info.t # "object"

\* C11: parseTransaction never propagates an exception: a call is either
\* still waiting for its lookups (and resumes once they are answered) or has
\* returned a record or null; for a transaction detail with a missing
\* transaction, message, accountKeys, signatures, instructions list or
\* transfer info it returns null.
C11_NeverPropagates ==
    /\ parseCall.st \in {"called", "awaiting", "returned"}
    /\ parseCall.st = "awaiting" => ENABLED NextParse
    /\ CallReturned =>
          \/ parseCall.result = Null
          \/ parseCall.why = "record" /\ parseCall.result.t = "object"
    /\ (CallReturned /\ ShapeIncomplete) => parseCall.result = Null

\* C11 witness: a detail without signatures passed every stage, both lookups
\* were answered, and the TypeError raised while the record was built was
\* turned into null.
C11_Witness ==
    /\ CallReturned /\ parseCall.why = "exception"
    /\ BothSettled(parseCall) /\ ~SignaturesReadable
    /\ parseCall.result = Null

\* the call got past the extraction loops: its transfers array is final
Extracted ==
    \/ parseCall.st = "awaiting"
    \/ CallReturned /\ parseCall.why \in {"noTransfers", "record"}
    \/ CallReturned /\ parseCall.why = "exception" /\ BothSettled(parseCall)

\* the instructions of the input, group by group, in nested order
InputInstructions ==
    IF InnerPresent THEN Flatten(InputTx.meta.innerInstructions.a) ELSE <<>>

\* an amount that is present and is not zero, whether the ledger gives it as
\* a number or as a string of digits
AmountNonZero(amount) == ~IsNullish(amount) /\ ToNumber(amount) # Num(0)

IsParsedTransfer(ix) == ix.parsed.t = "object" /\ ix.parsed.type = Str("transfer")

\* positions of the parsed 'transfer' instructions with a non-zero amount
NonZeroTransferPositions ==
    {i \in 1..Len(InputInstructions) :
        /\ IsParsedTransfer(InputInstructions[i])
        /\ AmountNonZero(InputInstructions[i].parsed.info.amount)}

\* C12 as claimed: an instruction is extracted if and only if it is a parsed
\* 'transfer' whose amount is present and non-zero: a transfer whose amount
\* is 0, "0" or absent is never in the transfer sequence.
C12_ExtractsIffNonZeroTransfer ==
    Extracted =>
        /\ Len(parseCall.transfers) = Cardinality(NonZeroTransferPositions)
        /\ \A k \in 1..Len(parseCall.transfers) :
              AmountNonZero(parseCall.transfers[k].amount)
        /\ \A i \in NonZeroTransferPositions :
              \E k \in 1..Len(parseCall.transfers) :
                  parseCall.transfers[k] = Transfer(InputInstructions[i])

\* positions of the instructions that pass the test of line 186
AcceptedPositions ==
    {i \in 1..Len(InputInstructions) : Qualifies(InputInstructions[i])}

\* how many accepted instructions stand at or before position i
Rank(i) == Cardinality({j \in AcceptedPositions : j <= i})

\* C13: the extracted sequence is the subsequence of the instructions the
\* extractor accepts, in group-by-group, instruction-by-instruction order:
\* the k-th accepted instruction is the k-th entry, one entry per accepted
\* instruction, repeated transfers between the same accounts included.
C13_OrderAndMultiplicityPreserved ==
    Extracted =>
        /\ Len(parseCall.transfers) = Cardinality(AcceptedPositions)
        /\ \A i \in AcceptedPositions :
              parseCall.transfers[Rank(i)] = Transfer(InputInstructions[i])

\* C13 witness: two groups holding the same transfer twice and then another
\* one gave three entries in that order.
C13_Witness ==
    /\ Extracted /\ InnerPresent
    /\ Len(InputTx.meta.innerInstructions.a) = 2
    /\ Len(parseCall.transfers) = 3
    /\ parseCall.transfers[1] = parseCall.transfers[2]
    /\ parseCall.transfers[3] # parseCall.transfers[2]
    /\ parseCall.transfers[3] = Transfer(InputInstructions[3])

\* the mint a leg gets from the ledger's answer to its lookup
MintFrom(answer) == IF answer.k = "none" THEN Null ELSE MintResult(answer)

\* the record as a function of the call's inputs and of the two answers
RecordFrom(td, dexInfo, answerIn, answerOut) ==
    [Record(ParseStart(td, dexInfo)) EXCEPT !.tokenIn.mint = MintFrom(answerIn),
                                            !.tokenOut.mint = MintFrom(answerOut)]

\* C14: the record is assembled only after both mint lookups have completed
\* (no record while one is outstanding; every query that was issued has been
\* answered), and it is a function of the inputs and the two answers alone:
\* the order in which the answers came does not enter it.
C14_AssembledAfterBothLookups ==
    /\ parseCall.st = "awaiting" => parseCall.result = Null
    /\ (CallReturned /\ parseCall.why = "record") =>
          /\ parseCall.tokenIn.st = "settled" /\ parseCall.tokenOut.st = "settled"
          /\ parseCall.tokenIn.rpc = 1 => answers.tokenIn.k # "none"
          /\ parseCall.tokenOut.rpc = 1 => answers.tokenOut.k # "none"
          /\ parseCall.result = RecordFrom(parseCall.td, parseCall.dexInfo,
                                           answers.tokenIn, answers.tokenOut)

\* C14 witness: the lookup of the first transfer's destination was answered
\* before the one of the last transfer's source, both with a mint, and the
\* record holds both.
C14_Witness ==
    /\ GotRecord
    /\ answers.order = <<"tokenOut", "tokenIn">>
    /\ parseCall.result.tokenIn.mint = Str("mintY")
    /\ parseCall.result.tokenOut.mint = Str("mintZ")

\* the call computed a classification and went on with it
Classified == parseCall.st = "awaiting" \/ (CallReturned /\ parseCall.why = "record")

\* the balances at index 0, as the ledger gave them
PreBalance0 == Index(InputTx.meta.preBalances, 0)
PostBalance0 == Index(InputTx.meta.postBalances, 0)
BothNumeric == PreBalance0.t = "number" /\ PostBalance0.t = "number"

\* C16: the classification depends on preBalances[0] and postBalances[0]
\* alone: the direction is 'buy' exactly when post < pre and 'sell' otherwise
\* ('sell' when they are equal), the magnitude is |post - pre| / 1e9, and
\* the record carries that direction.
C16_BalanceClassificationPure ==
    Classified =>
        LET nb == parseCall.nativeBalance IN
        /\ nb.type = IF BothNumeric /\ PostBalance0.n < PreBalance0.n
                     THEN Str("buy") ELSE Str("sell")
        /\ BothNumeric =>
              /\ nb.balanceChange.num =
                    IF PostBalance0.n < PreBalance0.n
                    THEN PreBalance0.n - PostBalance0.n
                    ELSE PostBalance0.n - PreBalance0.n
              /\ nb.balanceChange.den = SCALE
        /\ GotRecord => parseCall.result.type = nb.type

\* C16 witness: equal balances at index 0, other entries behind them, and a
\* first account key that is no signer, gave a 'sell' of magnitude 0.
C16_Witness ==
    /\ GotRecord
    /\ PreBalance0 = Num(Lamports1) /\ PostBalance0 = Num(Lamports1)
    /\ Len(InputTx.meta.preBalances.a) = 2
    /\ ~Truthy(InputTx.transaction.message.accountKeys.a[1].signer)
    /\ parseCall.result.type = Str("sell")
    /\ parseCall.nativeBalance.balanceChange.num = 0

\* the account-keys list of the input and the entries flagged as signer
InputKeys == InputTx.transaction.message.accountKeys
FlaggedKeys == {i \in 1..Len(InputKeys.a) : InputKeys.a[i].signer = Bool(TRUE)}

\* valid balances and at least one accepted transfer, nothing missing
ParsableInput ==
    /\ WrapperNonEmpty /\ InputTx.t = "object"
    /\ ~ShapeIncomplete
    /\ BalancesReadable /\ BothNumeric
    /\ AcceptedPositions # {}

\* C17: with no account key flagged as signer the call still returns a record
\* (given valid balances and a transfer) and its monitored_wallet is unset;
\* with flagged keys monitored_wallet is the first flagged one in list order.
C17_SignerIsFirstFlaggedOrUnset ==
    /\ (CallReturned /\ ParsableInput /\ FlaggedKeys = {}) =>
          GotRecord /\ parseCall.result.monitored_wallet = Undef
    /\ (GotRecord /\ FlaggedKeys # {}) =>
          LET first == CHOOSE i \in FlaggedKeys : \A j \in FlaggedKeys : i <= j
          IN parseCall.result.monitored_wallet = Str(InputKeys.a[first].pubkey.key)

\* C17 witness: a record without monitored_wallet, from a detail whose only
\* account key is no signer.
C17_Witness ==
    /\ GotRecord
    /\ Len(InputKeys.a) = 1 /\ FlaggedKeys = {}
    /\ parseCall.result.monitored_wallet = Undef

\* a formatted amount that is a number and is not below zero
NonNegativeAmount(amount) == amount.t = "fixed" /\ ~amount.neg

\* C19 as claimed: in every record tokenIn.amount and tokenOut.amount are
\* non-negative after scaling, whatever amount the extractor accepted.
C19_AmountsNonNegative ==
    GotRecord =>
        /\ NonNegativeAmount(parseCall.result.tokenIn.amount)
        /\ NonNegativeAmount(parseCall.result.tokenOut.amount)

\* the text is a public key, so that the query for it is issued
IsKey(address) == address.t = "string" /\ address.s \in Addresses

\* the input gives no wrapper, no readable balances or no accepted transfer
NothingToResolve ==
    \/ ~WrapperNonEmpty
    \/ IsNullish(InputTx)
    \/ ~BalancesReadable
    \/ ~InnerPresent
    \/ ~ShapeIncomplete /\ AcceptedPositions = {}

\* C20: a call that returns null for an empty wrapper, a failed balance
\* computation or an empty transfer sequence has started no mint lookup and
\* issued no getParsedAccountInfo query; a call that reaches mint resolution
\* has started exactly the two lookups, for the last transfer's source and
\* the first transfer's destination, each issuing one query for its account
\* key, also when a single transfer feeds both.
C20_LookupsOnlyOnSuccessPath ==
    /\ (CallReturned /\ parseCall.why \in {"noWrapper", "noBalance", "noTransfers"}) =>
          /\ parseCall.result = Null
          /\ parseCall.tokenIn = NoLookup /\ parseCall.tokenOut = NoLookup
    /\ (CallReturned /\ NothingToResolve) =>
          /\ parseCall.result = Null
          /\ parseCall.tokenIn.rpc = 0 /\ parseCall.tokenOut.rpc = 0
    /\ (Extracted /\ Len(parseCall.transfers) > 0) =>
          LET ts == parseCall.transfers IN
          /\ parseCall.tokenIn.st # "none" /\ parseCall.tokenOut.st # "none"
          /\ parseCall.tokenIn.address = ts[Len(ts)].source
          /\ parseCall.tokenOut.address = ts[1].destination
          /\ parseCall.tokenIn.rpc = IF IsKey(ts[Len(ts)].source) THEN 1 ELSE 0
          /\ parseCall.tokenOut.rpc = IF IsKey(ts[1].destination) THEN 1 ELSE 0

\* C20 witness: a call with a single extracted transfer issued two queries
\* and returned its record.
C20_Witness ==
    /\ GotRecord
    /\ Len(parseCall.transfers) = 1
    /\ parseCall.tokenIn.rpc + parseCall.tokenOut.rpc = 2
    /\ answers.tokenIn.k = "resolve" /\ answers.tokenOut.k = "resolve"

(***************************************************************************)
(* Properties of the whole program (checked under SpecMain)                *)
(***************************************************************************)
\* no message was handed to the bot, at startup or for an event
NothingSent ==
    /\ startup.handed = 0
    /\ \A e \in Events : telegram[e] = NoMessage

\* C18 as claimed: with DISABLE_TELEGRAM_MESSAGES=1 no message is ever sent;
\* with DISABLE_TELEGRAM_MESSAGES=0 or unset every record an event ends with
\* is handed to the channel, and so is every startup message once
\* messageManager is through.
C18_SuppressedExactlyWhenFlagSet ==
    /\ env = Str("1") => NothingSent
    /\ env \in {Undef, Str("0")} =>
          /\ startup.pc = "done" => startup.handed = Len(StartupMessages)
          /\ \A e \in Events :
                (ev[e].pc = "done" /\ ~IsNullish(Result(e))) => telegram[e] # NoMessage

(***************************************************************************)
(* Isolation of concurrent handlers (checked under Spec)                   *)
(***************************************************************************)
\* the frame of event e with its two lookups as they were when started
BeforeLookups(f) ==
    [f EXCEPT !.st = "awaiting", !.why = "", !.result = Null,
              !.tokenIn = LookupStart(@.address), !.tokenOut = LookupStart(@.address)]

\* the record of event e is the one its own log lines and its own
\* transaction give when parsed alone, its mints resolved from its own
\* transfers' accounts, and the message sent for e is that record
OwnRecord(e) ==
    /\ ev[e].frame.td \in MonitorDetails(e)
    /\ BeforeLookups(ev[e].frame) = ParseStart(ev[e].frame.td, identifyDex(ev[e].logs))
    /\ Result(e) = Record(ev[e].frame)
    /\ Result(e).signature = Sig(e)
    /\ ResolvedFrom(Result(e).tokenIn.mint, ev[e].frame.tokenIn.address)
    /\ ResolvedFrom(Result(e).tokenOut.mint, ev[e].frame.tokenOut.address)
    /\ telegram[e] # NoMessage => telegram[e].text = formatJsonToString(Result(e))

\* C15: with several events in flight, interleaved at every fetch and lookup
\* suspension point, each record is determined by its own event's inputs
\* alone: signature, label, direction and transfers are those of its own
\* transaction and log lines, as if the event had been processed alone, its
\* mints are resolved from its own transfers' accounts, and the message sent
\* for the event is that record.
C15_RecordsAreIsolated ==
    \A e \in Events : ~IsNullish(Result(e)) => OwnRecord(e)

\* C15 witness: event 2, delivered while event 1 was in flight, overtook it
\* and was notified under its own label while event 1 still waits for its
\* lookups under another.
C15_Witness ==
    /\ ev[1].pc = "parsing"
    /\ ev[2].pc = "done" /\ ~IsNullish(Result(2)) /\ telegram[2].st = "sent"
    /\ Result(2).dex = Str("Pump.fun") /\ ev[1].dexInfo.dex = Str("Jupiter")
    /\ Result(2).signature = Sig(2)
====
